---------------------------- MODULE Spec2Model ----------------------------
(***************************************************************************)
(* SmartHeart front end (src/frontend/app/page.tsx): the Home component    *)
(* (upload/result controller) and the API client uploadFiles.              *)
(*                                                                         *)
(* One action per event handler.  A handler that awaits is split at its    *)
(* await: the part up to the await is one action, the continuation that    *)
(* runs when the promise settles is another.  React re-renders between two *)
(* events, so every handler reads the state of the latest render.          *)
(*                                                                         *)
(* Values: an object or array that may be null is Null (<<>>) or the       *)
(* value; a string that may be null is NullString or the string; a number  *)
(* that may be null is NullNumber or the number.                           *)
(***************************************************************************)
EXTENDS Integers, Sequences, FiniteSets, TLC

VARIABLES
    ecgFile,        \* useState<File | null>
    pcgFile,        \* useState<File | null>
    result,         \* useState<PredictionResponse | null>
    loading,        \* useState(false)
    error,          \* useState<string | null>
    activeTab,      \* useState<number>(0)
    isPlaying,      \* useState(false)
    pcgAudioUrl,    \* useState<string | null>
    showCsvModal,   \* useState(false)
    csvData,        \* useState<string[][] | null>
    csvLoading,     \* useState(false)
    reportLoading,  \* useState(false)
    reads,          \* files whose text() promise has not settled yet
    report,         \* the generateReport call that is awaiting a chart capture
    saved,          \* the document pdf.save handed to the browser in the last step
    returned,       \* how uploadFiles settled in the last step, if it did
    requests,       \* POST requests sent by axios.post and not yet settled
    objectUrls,     \* object URLs created and not yet revoked (browser state)
    urlCount,       \* number of object URLs the browser has created so far
    event,          \* the handler (or continuation) that ran last, and its arguments
    analyzed        \* history: the parts of the request that result is the response to

vars == <<ecgFile, pcgFile, result, loading, error, activeTab, isPlaying,
          pcgAudioUrl, showCsvModal, csvData, csvLoading, reportLoading, reads,
          report, saved, returned, requests, objectUrls, urlCount, event,
          analyzed>>

\* the state of the CSV preview
csvVars == <<showCsvModal, csvData, csvLoading, reads>>

\* the state of report generation
reportVars == <<reportLoading, report>>

-----------------------------------------------------------------------------
(* Bounds of the model *)

\* object URLs the browser hands out before file selection stops
MaxUrls == 3
\* uploads that may be in flight at once when handlers are called directly
MaxInflight == 2
\* a risk is a number of RiskScale-ths: 0/RiskScale .. RiskScale/RiskScale
RiskScale == 2
\* the longest CSV text of which every variant is tried
MaxTextLen == 2

-----------------------------------------------------------------------------
(* null, in the three shapes the values of the program take *)

Null == <<>>
NullString == "<null>"
NullNumber == -1

\* a step of handler name that saves no document and settles no upload
Step(name) == event' = [name |-> name] /\ saved' = Null /\ returned' = Null

-----------------------------------------------------------------------------
(* Files the user can pick *)

\* a File: its name and, for a CSV file, the characters of its text
File(name, text) == [name |-> name, text |-> text]

EcgFiles ==
    { File("a.csv", <<"1", ",", "2", "\n", "3", ",", "4">>),
      File("b.csv", <<"7", "\n">>) }

PcgFiles == { [name |-> "a.wav"], [name |-> "b.wav"] }

\* the characters of the CSV texts tried
CsvChars == {"1", ",", "\n"}

\* every text of at most MaxTextLen characters
ShortTexts == UNION { [1..n -> CsvChars] : n \in 0..MaxTextLen }

\* "1\n1\n...\n1": rows lines of one field
LinesText(rows) == [i \in 1..(2 * rows - 1) |-> IF i % 2 = 1 THEN "1" ELSE "\n"]

\* the text "1,2\n3,4\n5,6"
ThreeByTwo == <<"1", ",", "2", "\n", "3", ",", "4", "\n", "5", ",", "6">>

\* a text with blanks around its fields and a final line break
Padded == <<" ", "1", ",", " ", "2", "\r", "\n">>

\* one file of each kind
OneEcgFile == { File("a.csv", <<"1", ",", "2", "\n", "3", ",", "4">>) }

OnePcgFile == { [name |-> "a.wav"] }

-----------------------------------------------------------------------------
(* Messages *)

NoFilesMessage == "Please upload at least one file (ECG or PCG)"
ValidationMessage == "At least one file (ECG or PCG) must be provided"
ServerErrorDefault == "Server error occurred"
NetworkMessage ==
    "Network error: Unable to reach the server. Please check if the backend is running."
UnexpectedMessage == "An unexpected error occurred during file upload"
AnalysisFallback == "An error occurred during analysis"
CsvFailMessage == "Failed to parse CSV file"
ReportFailMessage == "Failed to generate report. Please try again."

-----------------------------------------------------------------------------
(* PredictionResponse *)

PredictionResponse(er, pr, cr, plot, wave, spec) ==
    [ecg_risk |-> er, pcg_risk |-> pr, combined_risk |-> cr,
     ecg_plot_data |-> plot, pcg_waveform_data |-> wave,
     pcg_spectrogram |-> spec]

\* the responses to both files, to an ECG file only, to a PCG file only
Responses ==
    { PredictionResponse(RiskScale, 0, RiskScale \div 2, <<<<0, 1>>>>, <<1>>, "png"),
      PredictionResponse(1, NullNumber, 1, <<<<0, 1>>>>, Null, NullString),
      PredictionResponse(NullNumber, RiskScale, RiskScale, Null, <<1>>, "png") }

\* every response: each risk any value or null, each data field present or absent
RiskValues == {NullNumber} \cup 0..RiskScale

AllResponses ==
    { PredictionResponse(er, pr, cr, plot, wave, spec) :
        er \in RiskValues, pr \in RiskValues, cr \in RiskValues,
        plot \in {Null, <<<<0, 1>>>>}, wave \in {Null, <<1>>},
        spec \in {NullString, "", "png"} }

-----------------------------------------------------------------------------
(* API client: uploadFiles *)

\* a thrown JavaScript value
Thrown(isErr, isAxios, msg, resp, req) ==
    [isError |-> isErr, isAxiosError |-> isAxios, message |-> msg,
     response |-> resp, request |-> req]

\* new Error(message)
NewError(msg) == Thrown(TRUE, FALSE, msg, Null, FALSE)

\* (mutant) every part appended, its file given or not
FormData_AppendsBoth(e, p) == {<<"ecg_file", e>>, <<"pcg_file", p>>}

\* FormData: the parts appended, each only if its file exists
FormData(e, p) ==
    (IF e # Null THEN {<<"ecg_file", e>>} ELSE {})
        \cup (IF p # Null THEN {<<"pcg_file", p>>} ELSE {})

\* the validation at the head of the try block
uploadFilesValid(e, p) == ~(e = Null /\ p = Null)

\* the request axios.post sends
PostRequest(e, p, caller) ==
    [method |-> "POST", path |-> "/predict", body |-> FormData(e, p),
     caller |-> caller]

\* the requests one call of uploadFiles hands to axios.post
uploadFilesSends(e, p, caller) ==
    IF uploadFilesValid(e, p) THEN <<PostRequest(e, p, caller)>> ELSE <<>>

\* JavaScript truthiness of a string that may be null
Truthy(s) == s # NullString /\ s # ""

\* (mutant) the request is looked at before the response
uploadFilesCatch_RequestFirst(err) ==
    IF err.isAxiosError /\ err.request
    THEN Thrown(TRUE, FALSE, NetworkMessage, Null, FALSE)
    ELSE IF err.isError THEN err
    ELSE Thrown(TRUE, FALSE, UnexpectedMessage, Null, FALSE)

\* the catch block: the Error that uploadFiles throws for a caught value
uploadFilesCatch(err) ==
    IF err.isAxiosError /\ err.response # Null
    THEN NewError((IF Truthy(err.response.detail)
                   THEN err.response.detail ELSE ServerErrorDefault)
                  \o " (Status: " \o ToString(err.response.status) \o ")")
    ELSE IF err.isAxiosError /\ err.request
    THEN NewError(NetworkMessage)
    ELSE IF err.isError
    THEN err
    ELSE NewError(UnexpectedMessage)

\* what axios.post can reject with
ServerResponses ==
    { [status |-> s, detail |-> d] :
        s \in {422, 500}, d \in {NullString, "", "Invalid ECG file format"} }

\* an AxiosError with a response, one without a response whose request was
\* sent, one raised before the request was sent; an Error that is no
\* AxiosError; a thrown value that is no Error
AllRejections ==
    { Thrown(TRUE, TRUE, "Request failed", r, TRUE) : r \in ServerResponses }
        \cup { Thrown(TRUE, TRUE, "Network Error", Null, TRUE),
               Thrown(TRUE, TRUE, "Invalid URL", Null, FALSE),
               Thrown(TRUE, FALSE, "Failed to execute 'append' on 'FormData'", Null, FALSE),
               Thrown(FALSE, FALSE, "thrown string", Null, FALSE) }

\* the two usual ones: the server answers with an error, the server is down
Rejections ==
    { Thrown(TRUE, TRUE, "Request failed",
             [status |-> 500, detail |-> "Invalid ECG file format"], TRUE),
      Thrown(TRUE, TRUE, "Network Error", Null, TRUE) }

\* the sequence s without its i-th element
Remove(s, i) == [j \in 1..(Len(s) - 1) |-> IF j < i THEN s[j] ELSE s[j + 1]]

-----------------------------------------------------------------------------
(* CSV preview: text.trim().split("\n").map((row) => row.split(","))       *)
(* A string is the sequence of its characters.                             *)

\* the characters String.prototype.trim strips
Whitespace == {" ", "\n", "\r", "\t"}

RECURSIVE TrimStart(_)
TrimStart(s) ==
    IF s # <<>> /\ Head(s) \in Whitespace THEN TrimStart(Tail(s)) ELSE s

RECURSIVE TrimEnd(_)
TrimEnd(s) ==
    IF s # <<>> /\ s[Len(s)] \in Whitespace
    THEN TrimEnd(SubSeq(s, 1, Len(s) - 1))
    ELSE s

\* (mutant) only the head of the text is trimmed
Trim_StartOnly(s) == TrimStart(s)

\* String.prototype.trim
Trim(s) == TrimEnd(TrimStart(s))

\* the pieces of s[lo..hi], cut at every sep (halved at a middle sep)
RECURSIVE SplitFrom(_, _, _, _)
SplitFrom(s, sep, lo, hi) ==
    LET at == {j \in lo..hi : s[j] = sep}
    IN  IF at = {}
        THEN <<SubSeq(s, lo, hi)>>
        ELSE LET k == CHOOSE j \in at :
                        Cardinality({h \in at : h < j}) = Cardinality(at) \div 2
             IN  SplitFrom(s, sep, lo, k - 1) \o SplitFrom(s, sep, k + 1, hi)

\* String.prototype.split with a one-character separator
Split(s, sep) == SplitFrom(s, sep, 1, Len(s))

\* the rows handleViewCsvData builds from the text of the file
ParseCsv(text) ==
    LET lines == Split(Trim(text), "\n")
    IN  [i \in 1..Len(lines) |-> Split(lines[i], ",")]

\* rows the modal shows at most: csvData.slice(0, 200)
DisplayCap == 200

\* the CSV files tried: every short text, the named ones, and texts of just
\* as many and of more rows than the modal shows
CsvTexts ==
    ShortTexts \cup
        {ThreeByTwo, Padded,
         LinesText(DisplayCap), LinesText(DisplayCap) \o <<"\n">>,
         LinesText(DisplayCap + 1), LinesText(DisplayCap + 1) \o <<"\n">>}

CsvFiles == { File("ecg.csv", t) : t \in CsvTexts }

-----------------------------------------------------------------------------
(* The rendered view *)

\* (mutant) the Analyze button stays enabled during a request
AnalyzeDisabled_IgnoresLoading == ecgFile = Null /\ pcgFile = Null

\* disabled attribute of the Analyze button
AnalyzeDisabled == loading \/ (ecgFile = Null /\ pcgFile = Null)

\* disabled attribute of the two file inputs
FileInputDisabled == loading

\* the View ECG Data button is rendered
ViewCsvRendered == ecgFile # Null

\* disabled attribute of the View ECG Data button
ViewCsvDisabled == csvLoading

\* the CSV modal is rendered
CsvModalRendered == showCsvModal /\ csvData # Null

\* the rows of the modal's table body
CsvTableRows ==
    SubSeq(csvData, 1, IF Len(csvData) < DisplayCap THEN Len(csvData) ELSE DisplayCap)

\* the "Showing first 200 rows of N total rows" note is rendered
CsvNoteRendered == Len(csvData) > DisplayCap

\* the audio element and its play button are rendered
AudioRendered == pcgFile # Null /\ pcgAudioUrl # NullString

\* the Download Report button is rendered
ReportButtonRendered == result # Null

\* disabled attribute of the Download Report button
ReportButtonDisabled == reportLoading

\* getRiskColor
getRiskColor(risk) ==
    IF risk = NullNumber THEN "text-gray-400"
    ELSE IF 2 * risk > RiskScale THEN "text-red-400" ELSE "text-emerald-400"

\* (mutant) the threshold is met at exactly one half
getRiskLabel_AtLeastHalf(risk) ==
    IF risk = NullNumber THEN "N/A"
    ELSE IF 2 * risk >= RiskScale THEN "HIGH RISK" ELSE "LOW RISK"

\* getRiskLabel
getRiskLabel(risk) ==
    IF risk = NullNumber THEN "N/A"
    ELSE IF 2 * risk > RiskScale THEN "HIGH RISK" ELSE "LOW RISK"

\* (risk * 100).toFixed(1)
Percent(risk) ==
    LET tenths == (2 * risk * 1000 + RiskScale) \div (2 * RiskScale)
    IN  ToString(tenths \div 10) \o "." \o ToString(tenths % 10)

\* a risk card: the figure, the label under it, the colour of both
RiskCard(risk) ==
    [value |-> IF risk # NullNumber THEN Percent(risk) \o "%" ELSE "N/A",
     label |-> getRiskLabel(risk),
     color |-> getRiskColor(risk)]

\* the three risk cards of the results section
RiskCards ==
    [ecg |-> RiskCard(result.ecg_risk),
     pcg |-> RiskCard(result.pcg_risk),
     combined |-> RiskCard(result.combined_risk)]

\* getEcgChartData / getPcgChartData: the points handed to SignalChart
getEcgChartData == IF result.ecg_plot_data = Null THEN <<>> ELSE result.ecg_plot_data

getPcgChartData ==
    IF result.pcg_waveform_data = Null THEN <<>> ELSE result.pcg_waveform_data

\* the children of the chart container, for the result and tab of this render
ChartContainer ==
    (IF activeTab = 0 /\ result.ecg_plot_data # Null
     THEN {[element |-> "ecgChart", data |-> getEcgChartData]} ELSE {})
    \cup
    (IF activeTab = 1 /\ result.pcg_waveform_data # Null
     THEN {[element |-> "pcgChart", data |-> getPcgChartData]} ELSE {})
    \cup
    (IF activeTab = 2
     THEN {[element |-> "spectrogramViewer", data |-> result.pcg_spectrogram]}
     ELSE {})
    \cup
    (IF \/ (activeTab = 0 /\ result.ecg_plot_data = Null)
        \/ (activeTab = 1 /\ result.pcg_waveform_data = Null)
        \/ (activeTab = 2 /\ ~Truthy(result.pcg_spectrogram))
     THEN {[element |-> "noData", data |-> "No data available for this visualization"]}
     ELSE {})

\* the refs React fills while their element is mounted
riskChartRef == result # Null

\* (mutant) the ECG chart stays mounted on every tab
ecgChartRef_AlwaysMounted == result # Null /\ result.ecg_plot_data # Null

ecgChartRef == result # Null /\ activeTab = 0 /\ result.ecg_plot_data # Null

pcgChartRef == result # Null /\ activeTab = 1 /\ result.pcg_waveform_data # Null

-----------------------------------------------------------------------------
(* Report generator: the jsPDF document                                    *)
(* A document is the number of its pages, the cursor yPos on the last      *)
(* page, and what was drawn: each entry with the page it was drawn on.     *)

\* yPos + imgHeight beyond this starts a new page
PageBreak == 280
\* the fixed height of the spectrogram image
SpectrogramHeight == 60

\* new jsPDF("p", "mm", "a4"), let yPos = 20
NewPdf == [pages |-> 1, yPos |-> 20, body |-> <<>>]

\* pdf.text / pdf.addImage on the current page
Draw(pdf, kind, text) ==
    [pdf EXCEPT !.body = Append(@, [page |-> pdf.pages, kind |-> kind, text |-> text])]

Advance(pdf, dy) == [pdf EXCEPT !.yPos = @ + dy]

addSectionHeader(pdf, text) == Advance(Draw(pdf, "section", text), 8)

addText(pdf, label, value) == Advance(Draw(pdf, "text", label \o ": " \o value), 6)

\* the text of one line of the risk section
RiskText(risk) ==
    IF risk # NullNumber
    THEN Percent(risk) \o "% ("
            \o (IF 2 * risk > RiskScale THEN "HIGH RISK" ELSE "LOW RISK") \o ")"
    ELSE "Not Available"

\* title, subtitle, date
ReportHeader(pdf) ==
    LET title == Advance(Draw(pdf, "title", "SmartHeart Analysis Report"), 10)
        subtitle ==
            Advance(Draw(title, "subtitle",
                "Bimodal Deep Learning for ECG and PCG-Based Cardiac Monitoring"), 15)
    IN  Advance(Draw(subtitle, "date", "Report Generated"), 15)

\* Risk Assessment Results
ReportRisks(pdf, res) ==
    LET head == Advance(addSectionHeader(pdf, "Risk Assessment Results"), 2)
        ecg == addText(head, "ECG Risk", RiskText(res.ecg_risk))
        pcg == addText(ecg, "PCG Risk", RiskText(res.pcg_risk))
        combined == addText(pcg, "Combined Risk", RiskText(res.combined_risk))
    IN  Advance(combined, 10)

\* Files Analyzed
ReportFiles(pdf, e, p) ==
    LET head == Advance(addSectionHeader(pdf, "Files Analyzed"), 2)
        ecg == IF e # Null THEN addText(head, "ECG File", e.name) ELSE head
        pcg == IF p # Null THEN addText(ecg, "PCG File", p.name) ELSE ecg
    IN  Advance(pcg, 10)

\* pdf.addPage(); yPos = 20, when the image does not fit
BreakPage(pdf, imgHeight) ==
    IF pdf.yPos + imgHeight > PageBreak
    THEN [pdf EXCEPT !.pages = @ + 1, !.yPos = 20]
    ELSE pdf

\* a captured chart: page break, section header, image
AddChart(pdf, title, imgHeight) ==
    LET placed == addSectionHeader(BreakPage(pdf, imgHeight), title)
    IN  Advance(Draw(placed, "image", title), imgHeight + 10)

\* the spectrogram: page break and section header, then addImage, which
\* throws on image data it cannot decode (imageOk false)
AddSpectrogram(pdf, imageOk) ==
    LET placed == addSectionHeader(BreakPage(pdf, SpectrogramHeight), "PCG Spectrogram")
    IN  IF imageOk
        THEN Advance(Draw(placed, "image", "PCG Spectrogram"), SpectrogramHeight + 10)
        ELSE placed

Disclaimer ==
    "SmartHeart - AI-powered multimodal cardiovascular risk assessment system | For research and educational purposes only"

\* the footer loop from page i on
RECURSIVE FooterFrom(_, _)
FooterFrom(pdf, i) ==
    IF i > pdf.pages THEN pdf
    ELSE FooterFrom(
            [pdf EXCEPT !.body = @ \o
                << [page |-> i, kind |-> "footer", text |-> Disclaimer],
                   [page |-> i, kind |-> "footer",
                    text |-> "Page " \o ToString(i) \o " of " \o ToString(pdf.pages)] >>],
            i + 1)

\* (mutant) the footer is stamped on the page current at the end only
Footer_LastPageOnly(pdf) == FooterFrom(pdf, pdf.pages)

Footer(pdf) == FooterFrom(pdf, 1)

\* the titles of the chart sections, by capture
ChartTitle(stage) ==
    CASE stage = "risk" -> "Risk Assessment Overview"
      [] stage = "ecg" -> "ECG Signal Visualization"
      [] stage = "pcg" -> "PCG Waveform Visualization"

\* heights a captured chart can have on the page:
\* canvas.height * imgWidth / canvas.width, which depends on the window
ImageHeights == {SpectrogramHeight, PageBreak \div 2}

-----------------------------------------------------------------------------
Init ==
    /\ ecgFile = Null
    /\ pcgFile = Null
    /\ result = Null
    /\ loading = FALSE
    /\ error = NullString
    /\ activeTab = 0
    /\ isPlaying = FALSE
    /\ pcgAudioUrl = NullString
    /\ showCsvModal = FALSE
    /\ csvData = Null
    /\ csvLoading = FALSE
    /\ reads = <<>>
    /\ reportLoading = FALSE
    /\ report = Null
    /\ saved = Null
    /\ returned = Null
    /\ requests = <<>>
    /\ objectUrls = {}
    /\ urlCount = 0
    /\ event = [name |-> "init"]
    /\ analyzed = {}

-----------------------------------------------------------------------------
(* File selection *)

\* (mutant) handleEcgChange without setCsvData(null)
handleEcgChange_KeepsCsv(file) ==
    /\ Step(IF file # Null THEN "handleEcgChange" ELSE "noFileChosen")
    /\ IF file # Null
       THEN /\ ecgFile' = file
            /\ error' = NullString
       ELSE UNCHANGED <<ecgFile, error>>
    /\ UNCHANGED <<analyzed, pcgFile, result, loading, activeTab, isPlaying,
                   pcgAudioUrl, csvVars, requests, objectUrls, urlCount,
                   reportVars>>

\* handleEcgChange with e.target.files[0] = file (Null: no file chosen)
handleEcgChange(file) ==
    /\ Step(IF file # Null THEN "handleEcgChange" ELSE "noFileChosen")
    /\ IF file # Null
       THEN /\ ecgFile' = file
            /\ error' = NullString
            /\ csvData' = Null
       ELSE UNCHANGED <<ecgFile, error, csvData>>
    /\ UNCHANGED <<analyzed, pcgFile, result, loading, activeTab, isPlaying,
                   pcgAudioUrl, showCsvModal, csvLoading, reads, requests,
                   objectUrls, urlCount, reportVars>>

\* URL.createObjectURL: a URL never handed out before
CreateObjectURL == "blob:" \o ToString(urlCount + 1)

\* (mutant) the previous URL is not revoked
RevokePrevious_Skipped == objectUrls

\* the object URLs left after the revoke step of handlePcgChange
RevokePrevious ==
    IF pcgAudioUrl # NullString THEN objectUrls \ {pcgAudioUrl} ELSE objectUrls

\* handlePcgChange with e.target.files[0] = file (Null: no file chosen)
handlePcgChange(file) ==
    /\ Step(IF file # Null THEN "handlePcgChange" ELSE "noFileChosen")
    /\ IF file # Null
       THEN /\ urlCount < MaxUrls
            /\ pcgFile' = file
            /\ error' = NullString
            /\ objectUrls' = RevokePrevious \cup {CreateObjectURL}
            /\ urlCount' = urlCount + 1
            /\ pcgAudioUrl' = CreateObjectURL
            /\ isPlaying' = FALSE
       ELSE UNCHANGED <<pcgFile, error, objectUrls, urlCount, pcgAudioUrl,
                        isPlaying>>
    /\ UNCHANGED <<analyzed, ecgFile, result, loading, activeTab, requests, csvVars,
                   reportVars>>

-----------------------------------------------------------------------------
(* Analysis *)

\* how a call of uploadFiles settled: with the response data, or with the
\* Error its catch block threw for the value it caught
Fulfilled(data) == [status |-> "fulfilled", value |-> data]

Rejected(caught) ==
    [status |-> "rejected", caught |-> caught, reason |-> uploadFilesCatch(caught)]

\* (mutant) handleAnalyze without its check for files
handleAnalyze_NoCheck ==
    /\ Step("handleAnalyze")
    /\ Len(requests) < MaxInflight
    /\ loading' = TRUE
    /\ error' = NullString
    /\ requests' = requests \o uploadFilesSends(ecgFile, pcgFile, "handleAnalyze")
    /\ UNCHANGED <<analyzed, ecgFile, pcgFile, result, activeTab, isPlaying, pcgAudioUrl,
                   objectUrls, urlCount, csvVars, reportVars>>

\* handleAnalyze, up to its await of uploadFiles
handleAnalyze ==
    /\ Step("handleAnalyze")
    /\ IF ecgFile = Null /\ pcgFile = Null
       THEN /\ error' = NoFilesMessage
            /\ UNCHANGED <<loading, requests>>
       ELSE /\ Len(requests) < MaxInflight
            /\ loading' = TRUE
            /\ error' = NullString
            /\ requests' = requests \o uploadFilesSends(ecgFile, pcgFile, "handleAnalyze")
    /\ UNCHANGED <<analyzed, ecgFile, pcgFile, result, activeTab, isPlaying, pcgAudioUrl,
                   objectUrls, urlCount, csvVars, reportVars>>

\* the result state after setResult(response)
\* (mutant) the response is merged into the prior result: a field the
\* response lacks keeps its prior value
setResult_Merges(response) ==
    IF result = Null THEN response
    ELSE [response EXCEPT
            !.ecg_plot_data = IF @ = Null THEN result.ecg_plot_data ELSE @,
            !.pcg_waveform_data = IF @ = Null THEN result.pcg_waveform_data ELSE @]

setResult(response) == response

\* the continuation of handleAnalyze when uploadFiles returned response
AnalyzeFulfilled(i, response) ==
    /\ event' = [name |-> "AnalyzeFulfilled"]
    /\ saved' = Null
    /\ returned' = Fulfilled(response)
    /\ requests' = Remove(requests, i)
    /\ result' = setResult(response)
    /\ analyzed' = requests[i].body
    /\ activeTab' = 0
    /\ loading' = FALSE
    /\ UNCHANGED <<ecgFile, pcgFile, error, isPlaying, pcgAudioUrl, objectUrls,
                   urlCount, csvVars, reportVars>>

\* the catch block of handleAnalyze: the message it hands to setError
handleAnalyzeCatch(err) ==
    IF err.isError THEN err.message ELSE AnalysisFallback

\* (mutant) setLoading(false) only on success, no finally block
handleAnalyzeFinally_Missing == loading

\* the loading flag after the finally block of handleAnalyze
handleAnalyzeFinally == FALSE

\* the continuation of handleAnalyze when axios.post rejected with thrown
AnalyzeRejected(i, thrown) ==
    /\ event' = [name |-> "AnalyzeRejected"]
    /\ saved' = Null
    /\ returned' = Rejected(thrown)
    /\ requests' = Remove(requests, i)
    /\ error' = handleAnalyzeCatch(uploadFilesCatch(thrown))
    /\ loading' = handleAnalyzeFinally
    /\ UNCHANGED <<analyzed, ecgFile, pcgFile, result, activeTab, isPlaying, pcgAudioUrl,
                   objectUrls, urlCount, csvVars, reportVars>>

\* uploadFiles(e, p) called on its own, up to its await of axios.post; with no
\* file it throws before that
uploadFiles(e, p) ==
    /\ event' = [name |-> "uploadFiles", ecgFile |-> e, pcgFile |-> p]
    /\ saved' = Null
    /\ Len(requests) < MaxInflight
    /\ requests' = requests \o uploadFilesSends(e, p, "caller")
    /\ returned' = IF uploadFilesValid(e, p)
                   THEN Null
                   ELSE Rejected(NewError(ValidationMessage))
    /\ UNCHANGED <<analyzed, ecgFile, pcgFile, result, loading, error, activeTab,
                   isPlaying,
                   pcgAudioUrl, objectUrls, urlCount, csvVars, reportVars>>

\* uploadFiles, called on its own, returns response.data
UploadFulfilled(i, response) ==
    /\ event' = [name |-> "UploadFulfilled"]
    /\ saved' = Null
    /\ returned' = Fulfilled(response)
    /\ requests' = Remove(requests, i)
    /\ UNCHANGED <<analyzed, ecgFile, pcgFile, result, loading, error, activeTab,
                   isPlaying,
                   pcgAudioUrl, objectUrls, urlCount, csvVars, reportVars>>

\* uploadFiles, called on its own, throws from its catch block
UploadRejected(i, thrown) ==
    /\ event' = [name |-> "UploadRejected"]
    /\ saved' = Null
    /\ returned' = Rejected(thrown)
    /\ requests' = Remove(requests, i)
    /\ UNCHANGED <<analyzed, ecgFile, pcgFile, result, loading, error, activeTab,
                   isPlaying,
                   pcgAudioUrl, objectUrls, urlCount, csvVars, reportVars>>

\* Tabs onChange={setActiveTab}
setActiveTab(index) ==
    /\ Step("setActiveTab")
    /\ activeTab' = index
    /\ UNCHANGED <<analyzed, ecgFile, pcgFile, result, loading, error, isPlaying,
                   pcgAudioUrl, requests, objectUrls, urlCount, csvVars,
                   reportVars>>

-----------------------------------------------------------------------------
(* Audio playback *)

toggleAudioPlayback ==
    /\ Step("toggleAudioPlayback")
    /\ IF ~AudioRendered \/ pcgAudioUrl = NullString
       THEN UNCHANGED isPlaying
       ELSE isPlaying' = ~isPlaying
    /\ UNCHANGED <<analyzed, ecgFile, pcgFile, result, loading, error, activeTab,
                   pcgAudioUrl, requests, objectUrls, urlCount, csvVars,
                   reportVars>>

handleAudioEnded ==
    /\ Step("handleAudioEnded")
    /\ isPlaying' = FALSE
    /\ UNCHANGED <<analyzed, ecgFile, pcgFile, result, loading, error, activeTab,
                   pcgAudioUrl, requests, objectUrls, urlCount, csvVars,
                   reportVars>>

-----------------------------------------------------------------------------
(* CSV preview *)

\* handleViewCsvData, up to its await of ecgFile.text()
handleViewCsvData ==
    /\ Step("handleViewCsvData")
    /\ IF ecgFile = Null
       THEN UNCHANGED <<csvLoading, reads>>
       ELSE /\ csvLoading' = TRUE
            /\ reads' = Append(reads, ecgFile)
    /\ UNCHANGED <<analyzed, ecgFile, pcgFile, result, loading, error, activeTab,
                   isPlaying, pcgAudioUrl, showCsvModal, csvData, requests,
                   objectUrls, urlCount, reportVars>>

\* the continuation of handleViewCsvData when text() resolved
CsvTextFulfilled(i) ==
    /\ event' = [name |-> "CsvTextFulfilled", file |-> reads[i]]
    /\ saved' = Null
    /\ returned' = Null
    /\ reads' = Remove(reads, i)
    /\ csvData' = ParseCsv(reads[i].text)
    /\ showCsvModal' = TRUE
    /\ csvLoading' = FALSE
    /\ UNCHANGED <<analyzed, ecgFile, pcgFile, result, loading, error, activeTab,
                   isPlaying, pcgAudioUrl, requests, objectUrls, urlCount,
                   reportVars>>

\* (mutant) the modal is opened in the catch block as well
CsvTextRejected_OpensModal(i) ==
    /\ Step("CsvTextRejected")
    /\ reads' = Remove(reads, i)
    /\ error' = CsvFailMessage
    /\ csvLoading' = FALSE
    /\ showCsvModal' = TRUE
    /\ UNCHANGED <<analyzed, ecgFile, pcgFile, result, loading, activeTab, isPlaying,
                   pcgAudioUrl, csvData, requests, objectUrls, urlCount,
                   reportVars>>

\* the continuation of handleViewCsvData when text() rejected
CsvTextRejected(i) ==
    /\ Step("CsvTextRejected")
    /\ reads' = Remove(reads, i)
    /\ error' = CsvFailMessage
    /\ csvLoading' = FALSE
    /\ UNCHANGED <<analyzed, ecgFile, pcgFile, result, loading, activeTab, isPlaying,
                   pcgAudioUrl, showCsvModal, csvData, requests, objectUrls,
                   urlCount, reportVars>>

\* the two close buttons of the modal: setShowCsvModal(false)
closeCsvModal ==
    /\ Step("closeCsvModal")
    /\ showCsvModal' = FALSE
    /\ UNCHANGED <<analyzed, ecgFile, pcgFile, result, loading, error, activeTab,
                   isPlaying, pcgAudioUrl, csvData, csvLoading, reads, requests,
                   objectUrls, urlCount, reportVars>>

-----------------------------------------------------------------------------
(* Report generation *)

\* generateReport, up to its first await.  The callback closes over result,
\* ecgFile and pcgFile of the render it was created in.  riskChartRef is
\* mounted whenever result is, so html2canvas(riskChartRef.current) is awaited.
generateReport ==
    /\ Step("generateReport")
    /\ IF result = Null
       THEN UNCHANGED reportVars
       ELSE /\ reportLoading' = TRUE
            /\ report' =
                 [result |-> result, ecgFile |-> ecgFile, pcgFile |-> pcgFile,
                  stage |-> "risk",
                  pdf |-> ReportFiles(ReportRisks(ReportHeader(NewPdf), result),
                                      ecgFile, pcgFile)]
    /\ UNCHANGED <<analyzed, ecgFile, pcgFile, result, loading, error, activeTab,
                   isPlaying,
                   pcgAudioUrl, requests, objectUrls, urlCount, csvVars>>

\* the capture that generateReport awaits next after stage, if any: the
\* conditions read the result of the closure and the refs as they are now
StageAfter(stage) ==
    IF stage = "risk" /\ report.result.ecg_plot_data # Null /\ ecgChartRef
    THEN "ecg"
    ELSE IF stage \in {"risk", "ecg"}
            /\ report.result.pcg_waveform_data # Null /\ pcgChartRef
    THEN "pcg"
    ELSE "none"

\* (mutant) the spectrogram block runs whatever the result holds
FinishPdf_AlwaysSpectrogram(pdf, imageOk) == Footer(AddSpectrogram(pdf, imageOk))

\* the document after the spectrogram block and the footer loop
FinishPdf(pdf, imageOk) ==
    Footer(IF Truthy(report.result.pcg_spectrogram)
           THEN AddSpectrogram(pdf, imageOk)
           ELSE pdf)

\* the continuation of generateReport when html2canvas settled: captured is
\* FALSE when it rejected, imgHeight the height of the image otherwise;
\* imageOk and saveOk tell whether addImage of the spectrogram and pdf.save
\* return or throw, should this continuation reach them
ReportCaptured(captured, imgHeight, imageOk, saveOk) ==
    LET pdf == IF captured
               THEN AddChart(report.pdf, ChartTitle(report.stage), imgHeight)
               ELSE report.pdf
        next == StageAfter(report.stage)
    IN  /\ report # Null
        /\ event' = [name |-> "ReportCaptured", result |-> report.result]
        /\ returned' = Null
        /\ IF next # "none"
           THEN /\ report' = [report EXCEPT !.stage = next, !.pdf = pdf]
                /\ saved' = Null
                /\ UNCHANGED <<reportLoading, error>>
           ELSE /\ report' = Null
                /\ reportLoading' = FALSE
                /\ IF saveOk
                   THEN /\ saved' = FinishPdf(pdf, imageOk)
                        /\ UNCHANGED error
                   ELSE /\ saved' = Null
                        /\ error' = ReportFailMessage
        /\ UNCHANGED <<analyzed, ecgFile, pcgFile, result, loading, activeTab, isPlaying,
                       pcgAudioUrl, requests, objectUrls, urlCount, csvVars>>

-----------------------------------------------------------------------------
(* The page as the user drives it: an event reaches its handler only when  *)
(* the element that carries it is rendered and not disabled.               *)

SelectEcg(files) ==
    ~FileInputDisabled /\ \E f \in files \cup {Null} : handleEcgChange(f)

SelectPcg(files) ==
    ~FileInputDisabled /\ \E f \in files \cup {Null} : handlePcgChange(f)

ClickAnalyze == ~AnalyzeDisabled /\ handleAnalyze

ResponseArrives(responses) ==
    \E i \in 1..Len(requests) :
        /\ requests[i].caller = "handleAnalyze"
        /\ \E r \in responses : AnalyzeFulfilled(i, r)

RequestFails(rejections) ==
    \E i \in 1..Len(requests) :
        /\ requests[i].caller = "handleAnalyze"
        /\ \E t \in rejections : AnalyzeRejected(i, t)

ClickTab == result # Null /\ \E t \in 0..2 : setActiveTab(t)

ClickPlay == AudioRendered /\ toggleAudioPlayback

AudioEnds == AudioRendered /\ isPlaying /\ handleAudioEnded

ClickViewCsv == ViewCsvRendered /\ ~ViewCsvDisabled /\ handleViewCsvData

TextRead == \E i \in 1..Len(reads) : CsvTextFulfilled(i)

TextReadFails == \E i \in 1..Len(reads) : CsvTextRejected(i)

ClickCloseCsv == CsvModalRendered /\ closeCsvModal

ClickReport == ReportButtonRendered /\ ~ReportButtonDisabled /\ generateReport

ChartCaptured(heights) ==
    \E h \in heights, imageOk \in BOOLEAN, saveOk \in BOOLEAN :
        ReportCaptured(TRUE, h, imageOk, saveOk)

ChartCaptureFails ==
    \E imageOk \in BOOLEAN, saveOk \in BOOLEAN : ReportCaptured(FALSE, 0, imageOk, saveOk)

\* the page: files, analysis, tabs, CSV preview, report
Next ==
    \/ SelectEcg(OneEcgFile)
    \/ SelectPcg(OnePcgFile)
    \/ ClickAnalyze
    \/ ResponseArrives(Responses)
    \/ RequestFails(Rejections)
    \/ ClickTab
    \/ ClickViewCsv
    \/ TextRead
    \/ TextReadFails
    \/ ClickCloseCsv
    \/ ClickReport
    \/ ChartCaptured({SpectrogramHeight})
    \/ ChartCaptureFails

Spec == Init /\ [][Next]_vars

-----------------------------------------------------------------------------
(* The handlers and the API client called directly, as a caller of the     *)
(* module or a test of the component calls them: nothing is disabled.      *)

CallUploadFiles ==
    \E e \in OneEcgFile \cup {Null}, p \in OnePcgFile \cup {Null} : uploadFiles(e, p)

UploadReturns ==
    \E i \in 1..Len(requests) :
        /\ requests[i].caller = "caller"
        /\ \E r \in Responses : UploadFulfilled(i, r)

UploadThrows ==
    \E i \in 1..Len(requests) :
        /\ requests[i].caller = "caller"
        /\ \E t \in AllRejections : UploadRejected(i, t)

NextDirect ==
    \/ \E f \in OneEcgFile : handleEcgChange(f)
    \/ \E f \in OnePcgFile : handlePcgChange(f)
    \/ handleAnalyze
    \/ ResponseArrives(Responses)
    \/ RequestFails(AllRejections)
    \/ CallUploadFiles
    \/ UploadReturns
    \/ UploadThrows

SpecDirect == Init /\ [][NextDirect]_vars
-----------------------------------------------------------------------------
(* The PCG side of the page: selection, playback, analysis *)

NextPlayback ==
    \/ SelectPcg(PcgFiles)
    \/ ClickPlay
    \/ AudioEnds
    \/ ClickAnalyze
    \/ ResponseArrives(Responses)
    \/ RequestFails(Rejections)

SpecPlayback == Init /\ [][NextPlayback]_vars

-----------------------------------------------------------------------------
(* The results section, for every response the backend can send: the state *)
(* after a first analysis of an ECG file, then tabs and report.            *)

InitRender ==
    /\ ecgFile \in OneEcgFile
    /\ pcgFile = Null
    /\ result \in AllResponses
    /\ loading = FALSE
    /\ error = NullString
    /\ activeTab = 0
    /\ isPlaying = FALSE
    /\ pcgAudioUrl = NullString
    /\ showCsvModal = FALSE
    /\ csvData = Null
    /\ csvLoading = FALSE
    /\ reads = <<>>
    /\ reportLoading = FALSE
    /\ report = Null
    /\ saved = Null
    /\ returned = Fulfilled(result)
    /\ requests = <<>>
    /\ objectUrls = {}
    /\ urlCount = 0
    /\ event = [name |-> "AnalyzeFulfilled"]
    /\ analyzed = FormData(ecgFile, pcgFile)

NextRender ==
    \/ ClickTab
    \/ ClickReport
    \/ ChartCaptured({SpectrogramHeight})
    \/ ChartCaptureFails

SpecRender == InitRender /\ [][NextRender]_vars

-----------------------------------------------------------------------------
(* The report generator with charts of two heights, so that documents of   *)
(* several pages are laid out.                                             *)

NextReport ==
    \/ ClickTab
    \/ ClickReport
    \/ ChartCaptured(ImageHeights)
    \/ ChartCaptureFails

SpecReport == InitRender /\ [][NextReport]_vars

-----------------------------------------------------------------------------
(* Files, analysis and report: two ECG files to choose from *)

NextFiles ==
    \/ SelectEcg(EcgFiles)
    \/ SelectPcg(OnePcgFile)
    \/ ClickAnalyze
    \/ ResponseArrives(Responses)
    \/ ClickReport
    \/ ChartCaptured({SpectrogramHeight})
    \/ ChartCaptureFails

SpecFiles == Init /\ [][NextFiles]_vars

-----------------------------------------------------------------------------
(* The CSV preview, for every short text and some long ones *)

NextCsv ==
    \/ SelectEcg(CsvFiles)
    \/ ClickViewCsv
    \/ TextRead
    \/ TextReadFails
    \/ ClickCloseCsv

SpecCsv == Init /\ [][NextCsv]_vars

-----------------------------------------------------------------------------
(* Claims *)

\* the names of the parts of a multipart body
PartNames(body) == {part[1] : part \in body}

\* C1: handleAnalyze called in a state with no ECG file and no PCG file sends
\* no request (uploadFiles is not invoked), sets the error to the "at least
\* one file" message, and leaves loading false and the result as it was.
C1_NoFilesRejectedLocally ==
    [][(event'.name = "handleAnalyze" /\ ecgFile = Null /\ pcgFile = Null)
        => /\ requests' = requests
           /\ error' = NoFilesMessage
           /\ loading' = FALSE
           /\ result' = result]_vars

\* C1 witness: handleAnalyze has just run with no file selected: the message
\* is set and no request is in flight
C1_Witness ==
    /\ event.name = "handleAnalyze"
    /\ ecgFile = Null /\ pcgFile = Null
    /\ error = NoFilesMessage
    /\ requests = <<>>

\* C2: over any number of PCG selections the URL of the previous selection
\* is revoked before the next is created: at most one object URL is live,
\* and it is pcgAudioUrl.
C2_OneLiveObjectUrl ==
    /\ Cardinality(objectUrls) <= 1
    /\ objectUrls = (IF pcgAudioUrl = NullString THEN {} ELSE {pcgAudioUrl})

\* C2 witness: MaxUrls consecutive selections of a PCG file have been made
C2_Witness ==
    /\ event.name = "handlePcgChange"
    /\ urlCount = MaxUrls
    /\ urlCount >= 2
    /\ objectUrls = {pcgAudioUrl}

\* C3 as stated: when the upload resolves, the result is the response and the
\* error is null (success), or the error is the message thrown (failure),
\* and loading is false.
C3_Original ==
    /\ event.name = "AnalyzeFulfilled"
        => result = returned.value /\ error = NullString /\ ~loading
    /\ event.name = "AnalyzeRejected"
        => error = returned.reason.message /\ ~loading

\* C3 amended: submitting with a file sets loading, clears the error and
\* sends exactly one request; when it resolves, on success the result is the
\* response and the error is left as it is (null unless a CSV preview or a
\* report failed while the request was pending), on failure the error is the
\* message thrown and the result is left as it is; in both cases loading is
\* cleared, and loading is true only while the request is unresolved.
C3_AnalyzeLifecycle ==
    [][/\ (event'.name = "handleAnalyze" /\ ~(ecgFile = Null /\ pcgFile = Null))
          => /\ loading'
             /\ error' = NullString
             /\ Len(requests') = Len(requests) + 1
       /\ event'.name = "AnalyzeFulfilled"
          => /\ returned'.status = "fulfilled"
             /\ result' = returned'.value
             /\ error' = error
             /\ ~loading'
       /\ event'.name = "AnalyzeRejected"
          => /\ returned'.status = "rejected"
             /\ error' = returned'.reason.message
             /\ result' = result
             /\ ~loading'
       /\ loading' => Len(requests') = 1
      ]_vars

\* C3 witness: the upload succeeded while the error of a failed CSV preview
\* was showing
C3_Witness ==
    /\ event.name = "AnalyzeFulfilled"
    /\ result = returned.value
    /\ error = CsvFailMessage
    /\ ~loading

\* C4: at most one analysis request is in flight, and while one is the
\* Analyze button is disabled, whatever the user does meanwhile.
C4_OneRequestInFlight ==
    /\ Len(requests) <= 1
    /\ requests # <<>> => loading /\ AnalyzeDisabled

\* C4 witness: the user started a report, with a CSV read pending, while the
\* request was in flight
C4_Witness ==
    /\ Len(requests) = 1
    /\ event.name = "generateReport"
    /\ reads # <<>>

\* C5 as stated: after a file selection of either kind the error and the
\* CSV preview are null.
C5_Original ==
    event.name \in {"handleEcgChange", "handlePcgChange"}
        => error = NullString /\ csvData = Null

\* C5 amended: selecting an ECG file clears the error and the CSV preview;
\* selecting a PCG file clears the error and leaves the CSV preview as it is.
C5_SelectionClears ==
    [][/\ event'.name = "handleEcgChange" => error' = NullString /\ csvData' = Null
       /\ event'.name = "handlePcgChange" => error' = NullString /\ csvData' = csvData
      ]_vars

\* C5 witness: a PCG file was selected while a parsed CSV preview existed
C5_Witness ==
    /\ event.name = "handlePcgChange"
    /\ csvData # Null
    /\ error = NullString

\* C6: uploadFiles with both files absent throws before any request is sent;
\* with a file it sends exactly one POST to /predict whose body has the part
\* ecg_file iff an ECG file was given and pcg_file iff a PCG file was given
\* (called on its own or by handleAnalyze), and settling a request sends no
\* further request: nothing is retried.
C6_OnePostWithGivenParts ==
    [][/\ event'.name = "uploadFiles"
          => IF event'.ecgFile = Null /\ event'.pcgFile = Null
             THEN /\ requests' = requests
                  /\ returned' # Null
                  /\ returned'.status = "rejected"
             ELSE /\ Len(requests') = Len(requests) + 1
                  /\ SubSeq(requests', 1, Len(requests)) = requests
                  /\ returned' = Null
                  /\ LET sent == requests'[Len(requests')]
                     IN  /\ sent.method = "POST"
                         /\ sent.path = "/predict"
                         /\ ("ecg_file" \in PartNames(sent.body)) <=> (event'.ecgFile # Null)
                         /\ ("pcg_file" \in PartNames(sent.body)) <=> (event'.pcgFile # Null)
                         /\ PartNames(sent.body) \subseteq {"ecg_file", "pcg_file"}
       /\ (event'.name = "handleAnalyze" /\ ~(ecgFile = Null /\ pcgFile = Null))
          => /\ Len(requests') = Len(requests) + 1
             /\ SubSeq(requests', 1, Len(requests)) = requests
             /\ LET sent == requests'[Len(requests')]
                IN  /\ sent.method = "POST"
                    /\ sent.path = "/predict"
                    /\ sent.body = (IF ecgFile # Null THEN {<<"ecg_file", ecgFile>>} ELSE {})
                            \cup (IF pcgFile # Null THEN {<<"pcg_file", pcgFile>>} ELSE {})
       /\ event'.name \in {"UploadFulfilled", "UploadRejected",
                           "AnalyzeFulfilled", "AnalyzeRejected"}
          => Len(requests') = Len(requests) - 1
      ]_vars

\* C6 witness: uploadFiles was called with no file and threw, while the one
\* request of an earlier call with only a PCG file is still in flight
C6_Witness ==
    /\ event.name = "uploadFiles"
    /\ event.ecgFile = Null /\ event.pcgFile = Null
    /\ returned # Null
    /\ returned.reason.message = ValidationMessage
    /\ Len(requests) = 1
    /\ PartNames(requests[1].body) = {"pcg_file"}

\* the message the server supplied, with the default where it supplied none
ServerMessage(response) ==
    (IF response.detail \in {NullString, ""} THEN ServerErrorDefault ELSE response.detail)
        \o " (Status: " \o ToString(response.status) \o ")"

\* C7 as stated: a failure of uploadFiles is (a) a server error status: the
\* server's message with the status code; (b) no response received: the
\* "unable to reach the server" message; (c) anything else: the generic
\* fallback message; and the controller shows that message.
C7_Original ==
    (returned # Null /\ returned.status = "rejected")
    => LET caught == returned.caught
           message == returned.reason.message
       IN  /\ returned.reason.isError
           /\ IF caught.isAxiosError /\ caught.response # Null
              THEN message = ServerMessage(caught.response)
              ELSE IF caught.isAxiosError /\ caught.request
              THEN message = NetworkMessage
              ELSE message = UnexpectedMessage
           /\ event.name = "AnalyzeRejected" => error = message

\* C7 amended: as stated for (a) and (b); (c) a caught Error that is neither
\* (an AxiosError with no response and no request, any other Error, the
\* validation Error of uploadFiles itself) is thrown again unchanged and
\* carries its own message, and only a caught value that is no Error gives
\* the generic fallback message.  The controller shows the message thrown.
C7_ErrorTaxonomy ==
    (returned # Null /\ returned.status = "rejected")
    => LET caught == returned.caught
           message == returned.reason.message
       IN  /\ returned.reason.isError
           /\ IF caught.isAxiosError /\ caught.response # Null
              THEN message = ServerMessage(caught.response)
              ELSE IF caught.isAxiosError /\ caught.request
              THEN message = NetworkMessage
              ELSE IF caught.isError
              THEN returned.reason = caught
              ELSE message = UnexpectedMessage
           /\ event.name = "AnalyzeRejected" => error = message

\* C7 witness: the request of handleAnalyze failed with an AxiosError that
\* has no response and no request, and the controller shows its message
C7_Witness ==
    /\ event.name = "AnalyzeRejected"
    /\ returned.caught.isAxiosError
    /\ returned.caught.response = Null
    /\ ~returned.caught.request
    /\ error = returned.caught.message
    /\ error # UnexpectedMessage


\* the range of a sequence
Range(s) == {s[i] : i \in 1..Len(s)}

\* the label the claim gives a risk that is not null
ThresholdLabel(risk) == IF 2 * risk > RiskScale THEN "HIGH RISK" ELSE "LOW RISK"

\* the risks of a response, by the name the report gives them
RisksOf(response) ==
    { <<"ECG Risk", response.ecg_risk>>, <<"PCG Risk", response.pcg_risk>>,
      <<"Combined Risk", response.combined_risk>> }

\* C8: the label of a risk is decided by the value alone: above one half
\* "HIGH RISK" in red, at most one half (one half included) "LOW RISK" not in
\* red, null "N/A"; and the report prints the label of the same threshold
\* for the ECG, PCG and combined risk.
C8_RiskLabels ==
    /\ result # Null
        => \A r \in RisksOf(result) :
            LET risk == r[2]
                card == RiskCard(risk)
            IN  /\ risk = NullNumber => card.label = "N/A" /\ card.value = "N/A"
                /\ (risk # NullNumber /\ 2 * risk > RiskScale)
                    => card.label = "HIGH RISK" /\ card.color = "text-red-400"
                /\ (risk # NullNumber /\ 2 * risk <= RiskScale)
                    => card.label = "LOW RISK" /\ card.color # "text-red-400"
                /\ card.label = getRiskLabel(risk)
    /\ report # Null
        => \A r \in RisksOf(report.result) :
            [page |-> 1, kind |-> "text",
             text |-> r[1] \o ": " \o
                (IF r[2] = NullNumber THEN "Not Available"
                 ELSE Percent(r[2]) \o "% (" \o ThresholdLabel(r[2]) \o ")")]
                \in Range(report.pdf.body)

\* C8 witness: a result whose ECG risk is exactly one half, labelled LOW
\* RISK on its card, its PCG risk null and combined risk above one half,
\* while a report of it is being generated
C8_Witness ==
    /\ result # Null
    /\ 2 * result.ecg_risk = RiskScale
    /\ RiskCards.ecg.label = "LOW RISK"
    /\ result.pcg_risk = NullNumber
    /\ RiskCards.pcg.label = "N/A"
    /\ RiskCards.combined.label = "HIGH RISK"
    /\ report # Null
    /\ report.result = result

\* what the chart container holds, by element
PanelElements == {child.element : child \in ChartContainer}

\* the field the active tab displays is absent
TabFieldAbsent ==
    \/ activeTab = 0 /\ result.ecg_plot_data = Null
    \/ activeTab = 1 /\ result.pcg_waveform_data = Null
    \/ activeTab = 2 /\ result.pcg_spectrogram = NullString

\* C9: for any response and any tab, if the field the tab displays is absent
\* the panel holds the "no data available" state and no chart built from
\* the absent field, and a card whose risk is absent shows "N/A".
C9_Original ==
    result # Null
    => /\ TabFieldAbsent => PanelElements = {"noData"}
       /\ \A r \in RisksOf(result) : r[2] = NullNumber => RiskCard(r[2]).value = "N/A"

\* the pieces joined again, sep between each two
RECURSIVE JoinWith(_, _)
JoinWith(pieces, sep) ==
    IF Len(pieces) = 0 THEN <<>>
    ELSE IF Len(pieces) = 1 THEN pieces[1]
    ELSE LET half == Len(pieces) \div 2
         IN  JoinWith(SubSeq(pieces, 1, half), sep) \o <<sep>>
                \o JoinWith(SubSeq(pieces, half + 1, Len(pieces)), sep)

\* the text a table is the split of: fields joined by commas, lines by
\* line breaks
TableText(table) ==
    JoinWith([i \in 1..Len(table) |-> JoinWith(table[i], ",")], "\n")

\* no field of the table holds a separator
FieldsWhole(table) ==
    /\ Len(table) >= 1
    /\ \A i \in 1..Len(table) :
        /\ Len(table[i]) >= 1
        /\ \A j \in 1..Len(table[i]) : Range(table[i][j]) \cap {",", "\n"} = {}

\* the table is the split of the text into lines and of the lines into fields
IsSplitOf(table, text) == FieldsWhole(table) /\ TableText(table) = text

\* the text without the blanks at its head and at its end
Stripped(text) ==
    LET inked == {k \in 1..Len(text) : text[k] \notin {" ", "\n", "\r", "\t"}}
    IN  IF inked = {} THEN <<>>
        ELSE SubSeq(text, CHOOSE k \in inked : \A h \in inked : k <= h,
                          CHOOSE k \in inked : \A h \in inked : k >= h)

\* the modal shows the first rows of the table, DisplayCap at most, and the
\* note exactly when the table has more
PreviewCapped ==
    /\ CsvModalRendered
    /\ Len(CsvTableRows) <= DisplayCap
    /\ Len(CsvTableRows) <= Len(csvData)
    /\ Len(CsvTableRows) = DisplayCap \/ Len(CsvTableRows) = Len(csvData)
    /\ \A i \in 1..Len(CsvTableRows) : CsvTableRows[i] = csvData[i]
    /\ CsvNoteRendered <=> Len(csvData) > DisplayCap

\* the text "1,2\n3,4\n5,6" gives 3 rows of 2 columns
ThreeByTwoPreviewed ==
    event.file.text = ThreeByTwo
    => Len(csvData) = 3 /\ \A i \in 1..3 : Len(csvData[i]) = 2

\* C10 as stated: when the text of the ECG file has been read, the table is
\* the split of the raw text, one row per line and one cell per field; the
\* modal shows the first 200 rows at most, and the note exactly when the
\* table has more than 200 rows.
C10_Original ==
    event.name = "CsvTextFulfilled"
    => /\ IsSplitOf(csvData, event.file.text)
       /\ ThreeByTwoPreviewed
       /\ PreviewCapped

\* C10: when the text of the ECG file has been read, the table is the split
\* of the text without the blanks and line breaks at its head and end, one
\* row per line and one cell per field of what is left; "1,2\n3,4\n5,6"
\* gives 3 rows of 2 columns; the modal shows the first 200 rows at most,
\* and the note exactly when the table has more than 200 rows.
C10_CsvPreview ==
    event.name = "CsvTextFulfilled"
    => /\ IsSplitOf(csvData, Stripped(event.file.text))
       /\ ThreeByTwoPreviewed
       /\ PreviewCapped

\* C10 witness: a file of one row more than the modal shows, ended by a line
\* break, has been read: the table has that many rows, not one more, the
\* modal shows DisplayCap of them and the note
C10_Witness ==
    /\ event.name = "CsvTextFulfilled"
    /\ event.file.text = LinesText(DisplayCap + 1) \o <<"\n">>
    /\ Len(csvData) = DisplayCap + 1
    /\ Len(CsvTableRows) = DisplayCap
    /\ CsvNoteRendered

\* what a document holds of one kind: the texts of its entries of that kind
Drawn(pdf, kind) == {e.text : e \in {d \in Range(pdf.body) : d.kind = kind}}

\* the titles of the sections made from the charts and the spectrogram
DataSections ==
    {"ECG Signal Visualization", "PCG Waveform Visualization", "PCG Spectrogram"}

RiskOverview == "Risk Assessment Overview"

\* the result has none of ecg_plot_data, pcg_waveform_data, pcg_spectrogram
NoSignalData(response) ==
    /\ response.ecg_plot_data = Null
    /\ response.pcg_waveform_data = Null
    /\ response.pcg_spectrogram \in {NullString, ""}

\* the document has the header, the risk section and the files section
HasFixedSections(pdf) ==
    /\ "SmartHeart Analysis Report" \in Drawn(pdf, "title")
    /\ {"Risk Assessment Results", "Files Analyzed"} \subseteq Drawn(pdf, "section")
    /\ \E e, p, c \in Drawn(pdf, "text") :
        /\ \E t \in {RiskText(r) : r \in RiskValues \cup {NullNumber}} : e = "ECG Risk: " \o t
        /\ \E t \in {RiskText(r) : r \in RiskValues \cup {NullNumber}} : p = "PCG Risk: " \o t
        /\ \E t \in {RiskText(r) : r \in RiskValues \cup {NullNumber}} : c = "Combined Risk: " \o t

ChartSections == DataSections \cup {RiskOverview}

\* every page of the document has the disclaimer and its "Page i of N"
FooterStamped(pdf) ==
    \A i \in 1..pdf.pages :
        /\ [page |-> i, kind |-> "footer", text |-> Disclaimer] \in Range(pdf.body)
        /\ [page |-> i, kind |-> "footer",
            text |-> "Page " \o ToString(i) \o " of " \o ToString(pdf.pages)]
                \in Range(pdf.body)

\* C12: whichever of the captures (risk chart, ECG chart, PCG chart,
\* spectrogram) fail, the document is saved with the footer on every page,
\* and a section whose capture failed is skipped: the chart sections of the
\* saved document are those whose image was added, none is left as a
\* heading without its image.
C12_Original ==
    saved # Null
    => /\ FooterStamped(saved)
       /\ Drawn(saved, "section") \cap ChartSections = Drawn(saved, "image")

\* C13: when the response of an analysis arrives, the result becomes
\* exactly that response, whatever the result was before, and the active
\* tab becomes 0; selecting a tab changes the active tab and nothing else.
C13_NewResultReplaces ==
    [][ /\ event'.name = "AnalyzeFulfilled"
            => /\ result' = returned'.value
               /\ activeTab' = 0
        /\ event'.name = "setActiveTab"
            => UNCHANGED <<ecgFile, pcgFile, result, loading, error, isPlaying,
                           pcgAudioUrl, showCsvModal, csvData, csvLoading,
                           reportLoading, report, reads, requests, objectUrls>>
      ]_vars

\* C13 witness: a response has just arrived while a report of the prior,
\* different result is being generated with its PCG chart captured, which
\* was on tab 1: the result is the response and the tab is 0
C13_Witness ==
    /\ event.name = "AnalyzeFulfilled"
    /\ report # Null
    /\ report.result # result
    /\ report.stage = "pcg"
    /\ report.result.ecg_plot_data # Null
    /\ result.ecg_plot_data = Null
    /\ result = returned.value
    /\ activeTab = 0

\* C14: when the read of the CSV preview fails, the error message of the
\* preview is set and csvLoading is false again; the result, the loading
\* flag, the selected files, the active tab and the requests in flight are
\* unchanged, and the modal is not opened: showCsvModal and csvData are as
\* they were.
C14_CsvFailureFrame ==
    [][ event'.name = "CsvTextRejected"
        => /\ error' = CsvFailMessage
           /\ csvLoading /\ ~csvLoading'
           /\ UNCHANGED <<result, loading, ecgFile, pcgFile, activeTab, requests,
                          showCsvModal, csvData>>
      ]_vars

\* C14 witness: the read has just failed while an analysis is in flight, a
\* prior result is shown on another tab than the first, and the modal is
\* closed
C14_Witness ==
    /\ event.name = "CsvTextRejected"
    /\ error = CsvFailMessage
    /\ result # Null
    /\ loading
    /\ Len(requests) = 1
    /\ activeTab = 2
    /\ ~csvLoading
    /\ ~showCsvModal

\* the positions of the footer entries in the body of a document
FooterAt(pdf) == {k \in 1..Len(pdf.body) : pdf.body[k].kind = "footer"}

\* C15: in a saved document of N pages every page i of 1..N carries the
\* disclaimer and "Page i of N" with the same N, once each; the footer
\* entries are the last of the document, after everything the layout drew,
\* and nothing is drawn on a page beyond N.
C15_FooterOnEveryPage ==
    saved # Null
    => LET N == saved.pages
       IN  /\ N >= 1
           /\ \A i \in 1..N :
                /\ Cardinality({k \in FooterAt(saved) :
                        saved.body[k] = [page |-> i, kind |-> "footer",
                                         text |-> Disclaimer]}) = 1
                /\ Cardinality({k \in FooterAt(saved) :
                        saved.body[k] = [page |-> i, kind |-> "footer",
                            text |-> "Page " \o ToString(i) \o " of " \o ToString(N)]}) = 1
           /\ Cardinality(FooterAt(saved)) = 2 * N
           /\ FooterAt(saved) = (Len(saved.body) - 2 * N + 1)..Len(saved.body)
           /\ \A k \in 1..Len(saved.body) : saved.body[k].page \in 1..N

\* C15 witness: a document of three pages has been saved, with a chart on
\* each page and the footer of the third page reading "Page 3 of 3"
C15_Witness ==
    /\ saved # Null
    /\ saved.pages = 3
    /\ \A i \in 1..3 : \E k \in 1..Len(saved.body) :
            saved.body[k].page = i /\ saved.body[k].kind = "image"
    /\ [page |-> 3, kind |-> "footer", text |-> "Page 3 of 3"] \in Range(saved.body)

\* C16: whatever the order of preview requests, reads and ECG selections,
\* a table that is held is the parsed text of the ECG file selected now.
C16_Original ==
    csvData # Null
    => /\ ecgFile # Null
       /\ csvData = ParseCsv(ecgFile.text)

EcgSection == "ECG Signal Visualization"

PcgSection == "PCG Waveform Visualization"

FileLines(pdf) ==
    {t \in Drawn(pdf, "text") :
        \E f \in EcgFiles \cup OnePcgFile :
            t \in {"ECG File: " \o f.name, "PCG File: " \o f.name}}

\* the lines that name the files of the parts of a request
LinesOf(body) ==
    {"ECG File: " \o part[2].name : part \in {b \in body : b[1] = "ecg_file"}}
        \cup {"PCG File: " \o part[2].name : part \in {b \in body : b[1] = "pcg_file"}}

\* C17: when a report is generated, the files section names the files that
\* were submitted in the analysis the reported result is the response to,
\* whatever was selected, submitted and exported before.
C17_Original ==
    (event.name = "generateReport" /\ report # Null)
    => FileLines(report.pdf) = LinesOf(analyzed)

====
